---- MODULE Spec2Model ----
(***************************************************************************)
(* Model of the fornjot kernel's Validation layer                          *)
(* (crates/fj-core/src/layers/validation.rs) and of the reference-count    *)
(* validation checks                                                       *)
(* (crates/fj-core/src/validation/checks/multiple_references.rs).          *)
(***************************************************************************)
EXTENDS Integers, Sequences, FiniteSets

\* ------------------------------------------------------------------ bounds

\* Number of distinct stored objects that can be validated.
NumObjects == 2
\* Number of distinct ValidationError values.
NumErrors == 2
\* Largest number of errors one validation routine call appends.
MaxErrs == 2

Objects == 1..NumObjects
Errors == 1..NumErrors

\* ----------------------------------------------------------------- helpers

\* All sequences over S of length at most n.
SeqUpTo(S, n) == UNION {[1..k -> S] : k \in 0..n}

\* The elements of a sequence.
Range(s) == {s[i] : i \in DOMAIN s}

\* All orders (duplicate-free sequences) in which the elements of S can be
\* enumerated.
Orders(S) == {s \in [1..Cardinality(S) -> S] : Range(s) = S}

\* A map (HashMap) is a function whose domain is its key set.
EmptyMap == [k \in {} |-> 0]

\* HashMap::insert: the value of an existing key is replaced.
MapInsert(m, k, v) == [x \in DOMAIN m \cup {k} |-> IF x = k THEN v ELSE m[x]]

\* ------------------------------------------------------------------- state

\* The Validation layer.
VARIABLES
    errors,   \* Validation::errors, HashMap<ObjectId, ValidationError>
    last,     \* the last command processed: its inputs, events and result
    prev,     \* the command processed before the last one: its name and result
    emitted,  \* what has been emitted since the last drain: the (object, err)
              \* of the ValidationFailed events or, where only the calls
              \* are recorded, the objects whose validation produced an error
    drained,  \* what emitted was when the last TakeErrors was processed
    log       \* every event applied since the layer was constructed, in order

vvars == <<errors, last, prev, emitted, drained, log>>

\* The Validation layer, seen at the grain of the steps of a process call.
VARIABLES
    inflight, \* the process calls that have decided and not yet returned:
              \* each [cmd |-> its command, events |-> its events not yet applied]
    torn      \* whether some decide has read the state while the events of
              \* another call were applied in part

pvars == <<inflight, torn>>

\* The topology (stored objects, the current sketch and solid).
VARIABLES
    cycles,      \* the stored cycles: cycles[c] is the half-edges of cycle c
    regions,     \* the stored regions: regions[r] is the region of handle r
    sketch,      \* Sketch::regions: the region handles of the current sketch
    solid,       \* Solid::shells: each shell is its faces, each face
                 \* [id |-> its handle, region |-> the handle of its region]
    faces,       \* the number of faces stored so far
    report       \* the outcome of the last run of the checks

svars == <<cycles, regions, sketch, solid, faces, report>>

\* The object storage behind Handle and Storage.
VARIABLES
    heap,     \* the memory Arc allocates from: heap[a] is the cell at address a
    arcs,     \* the Storage and Handle values in existence, each holding an Arc
    made      \* made[c] is the value Storage::new was given for its c-th cell

hvars == <<heap, arcs, made>>

\* The last sketch update: what add_regions was given and what it was called
\* on, or NoEdit.
VARIABLES edit

\* Geometry.
VARIABLES
    gsurface, \* Geometry::surface, BTreeMap<Handle<Surface>, SurfaceGeom>
    gcurve,   \* Geometry::curve: gcurve[c] is the definitions of curve c,
              \* a map from surfaces to local curve geometry
    gvertex,  \* Geometry::vertex: gvertex[v] is the definitions of vertex v,
              \* a map from curves to local vertex geometry
    glast     \* the last call on the Geometry and how it ended

gvars == <<gsurface, gcurve, gvertex, glast>>

\* Validation of a face.
VARIABLES
    sink,     \* the error sink, Vec<ValidationError>
    flast     \* the last call of Face::validate: its inputs, the sink before
              \* it, and what each check was handed

fvars == <<sink, flast>>

\* ------------------------------------------------------- Validation layer

NoCommand == [cmd |-> "none"]

Ok == [ok |-> TRUE]
Err(errs) == [ok |-> FALSE, errs |-> errs]

\* Mutant: the events are pushed in reverse order.
M_ValidateObjectDecide_Reversed(object, errs) ==
    [events |-> [i \in 1..Len(errs) |->
                    [type |-> "ValidationFailed", object |-> object,
                     err |-> errs[Len(errs) + 1 - i]]],
     result |-> "unit"]

\* ValidateObject::decide: one ValidationFailed event per error the
\* validation routine produced (errs), each carrying the object; the command
\* has no result value (unit).
ValidateObjectDecide(object, errs) ==
    [events |-> [i \in 1..Len(errs) |->
                    [type |-> "ValidationFailed", object |-> object, err |-> errs[i]]],
     result |-> "unit"]

\* Mutant: the emptiness test is inverted.
M_TakeErrorsDecide_Inverted(st, order) ==
    LET collected == [i \in 1..Len(order) |-> st[order[i]]]
    IN  [events |-> <<[type |-> "TakeErrors"]>>,
         result |-> IF Len(collected) = 0 THEN Err(collected) ELSE Ok]

\* Mutant: equal errors recorded for different objects are collected once.
M_TakeErrorsDecide_Dedup(st, order) ==
    LET keep == {i \in 1..Len(order) :
                    \A j \in 1..(i - 1) : st[order[j]] # st[order[i]]}
        idx == CHOOSE f \in [1..Cardinality(keep) -> keep] :
                    \A a, b \in 1..Cardinality(keep) : a < b => f[a] < f[b]
        collected == [i \in 1..Cardinality(keep) |-> st[order[idx[i]]]]
    IN  [events |-> <<[type |-> "TakeErrors"]>>,
         result |-> IF Len(collected) = 0 THEN Ok ELSE Err(collected)]

\* TakeErrors::decide: the values of the map, collected in the map's
\* iteration order (order), one TakeErrors event, Ok iff nothing was collected.
TakeErrorsDecide(st, order) ==
    LET collected == [i \in 1..Len(order) |-> st[order[i]]]
    IN  [events |-> <<[type |-> "TakeErrors"]>>,
         result |-> IF Len(collected) = 0 THEN Ok ELSE Err(collected)]

\* Mutant: the clearing event does nothing.
M_TakeErrorsEvolve_Keep(st) == st

\* Mutant: the clearing event removes one entry only.
M_TakeErrorsEvolve_RemoveOne(st) ==
    IF DOMAIN st = {} THEN st
    ELSE LET k == CHOOSE x \in DOMAIN st : TRUE
         IN  [x \in DOMAIN st \ {k} |-> st[x]]

\* <TakeErrors as Event>::evolve
TakeErrorsEvolve(st) == EmptyMap

\* Mutant: recording a failure drops the failures of the other objects.
M_ValidationFailedEvolve_Only(ev, st) == MapInsert(EmptyMap, ev.object, ev.err)

\* An event that records nothing.
M_ValidationFailedEvolve_Nothing(ev, st) == st

\* An insert that keeps the failure already recorded for the object.
M_ValidationFailedEvolve_KeepFirst(ev, st) ==
    IF ev.object \in DOMAIN st THEN st ELSE MapInsert(st, ev.object, ev.err)

\* <ValidationFailed as Event>::evolve
ValidationFailedEvolve(ev, st) == MapInsert(st, ev.object, ev.err)

\* Event::evolve, by the type of the event.
Evolve(ev, st) ==
    IF ev.type = "TakeErrors" THEN TakeErrorsEvolve(st)
    ELSE ValidationFailedEvolve(ev, st)

\* Layer::process, after decide: the events are applied in emission order.
RECURSIVE ApplyEvents(_, _)
ApplyEvents(events, st) ==
    IF Len(events) = 0 THEN st
    ELSE ApplyEvents(Tail(events), Evolve(Head(events), st))

\* The (object, err) pairs of a sequence of ValidationFailed events.
Pairs(events) == {<<events[i].object, events[i].err>> : i \in DOMAIN events}

\* layer.process(ValidateObject { object, .. }, ..), the validation routine
\* of the object producing errs.
ValidateObject(object, errs) ==
    LET d == ValidateObjectDecide(object, errs)
    IN  /\ errors' = ApplyEvents(d.events, errors)
        /\ last' = [cmd |-> "ValidateObject", object |-> object, errs |-> errs,
                    pre |-> errors, events |-> d.events, result |-> d.result]
        /\ prev' = [cmd |-> last.cmd,
                     result |-> IF last.cmd = "none" THEN "unit" ELSE last.result]
        /\ UNCHANGED <<svars, hvars, pvars, gvars, fvars>>

\* A take_errors that empties the map itself and emits no event.
M_TakeErrors_ClearsDirectly(order) ==
    LET d == TakeErrorsDecide(errors, order)
    IN  /\ errors' = EmptyMap
        /\ last' = [cmd |-> "TakeErrors", pre |-> errors,
                    events |-> <<>>, result |-> d.result]
        /\ prev' = [cmd |-> last.cmd,
                     result |-> IF last.cmd = "none" THEN "unit" ELSE last.result]
        /\ UNCHANGED <<svars, hvars, pvars, gvars, fvars>>

\* Layer<Validation>::take_errors
TakeErrors(order) ==
    LET d == TakeErrorsDecide(errors, order)
    IN  /\ errors' = ApplyEvents(d.events, errors)
        /\ last' = [cmd |-> "TakeErrors", pre |-> errors,
                    events |-> d.events, result |-> d.result]
        /\ prev' = [cmd |-> last.cmd,
                     result |-> IF last.cmd = "none" THEN "unit" ELSE last.result]
        /\ UNCHANGED <<svars, hvars, pvars, gvars, fvars>>

VInit ==
    /\ errors = EmptyMap
    /\ last = NoCommand
    /\ prev = [cmd |-> "none", result |-> "unit"]
    /\ emitted = {}
    /\ drained = {}
    /\ log = <<>>
    /\ inflight = <<>>
    /\ torn = FALSE

VNext ==
    \/ \E object \in Objects, errs \in SeqUpTo(Errors, MaxErrs) :
          ValidateObject(object, errs) /\ UNCHANGED <<emitted, drained, log, edit>>
    \/ \E order \in Orders(DOMAIN errors) :
          TakeErrors(order) /\ UNCHANGED <<emitted, drained, log, edit>>

\* The same, recording what has been emitted since the last drain.
VNextLog ==
    \/ \E object \in Objects, errs \in SeqUpTo(Errors, MaxErrs) :
          /\ ValidateObject(object, errs)
          /\ emitted' = emitted \cup Pairs(last'.events)
          /\ UNCHANGED <<drained, log, edit>>
    \/ \E order \in Orders(DOMAIN errors) :
          /\ TakeErrors(order)
          /\ emitted' = {}
          /\ drained' = emitted
          /\ UNCHANGED <<log, edit>>

\* The same as VNext, recording the objects for which a ValidateObject since
\* the last drain produced an error, and what the last command drained.
VNextCalls ==
    \/ \E object \in Objects, errs \in SeqUpTo(Errors, MaxErrs) :
          /\ ValidateObject(object, errs)
          /\ emitted' = IF Len(errs) > 0 THEN emitted \cup {object} ELSE emitted
          /\ drained' = {}
          /\ UNCHANGED <<log, edit>>
    \/ \E order \in Orders(DOMAIN errors) :
          /\ TakeErrors(order)
          /\ emitted' = {}
          /\ drained' = emitted
          /\ UNCHANGED <<log, edit>>

\* Most events kept in the event log.
MaxLog == 4

\* The same as VNext, keeping the log of the events applied, in call order
\* and within a call in emission order.
VNextReplay ==
    \/ \E object \in Objects, errs \in SeqUpTo(Errors, MaxErrs) :
          /\ Len(log) + Len(errs) <= MaxLog
          /\ ValidateObject(object, errs)
          /\ log' = log \o last'.events
          /\ UNCHANGED <<emitted, drained, edit>>
    \/ \E order \in Orders(DOMAIN errors) :
          /\ Len(log) + 1 <= MaxLog
          /\ TakeErrors(order)
          /\ log' = log \o last'.events
          /\ UNCHANGED <<emitted, drained, edit>>

\* ------------------------------------- Validation layer, step by step

\* A borrow that does not exclude a second caller.
M_ExclusiveBorrow_Shared == Len(inflight) < 2

\* take_errors(&mut self), process(&mut self, ..): the call borrows the layer
\* exclusively, so it can start only while no other call holds the layer.
ExclusiveBorrow == Len(inflight) = 0

\* Some call in flight has applied a part of its events and not the rest.
PartlyApplied ==
    \E k \in DOMAIN inflight :
        inflight[k].applied > 0 /\ Len(inflight[k].events) > 0

\* The parts of the state the steps of a call leave alone.
StepFrame ==
    UNCHANGED <<last, prev, emitted, drained, log, svars, hvars, edit, gvars, fvars>>

\* process(ValidateObject), first phase: decide reads the state and returns
\* the events.
BeginValidateObject(object, errs) ==
    /\ ExclusiveBorrow
    /\ inflight' = Append(inflight,
                          [cmd |-> "ValidateObject", applied |-> 0,
                           events |-> ValidateObjectDecide(object, errs).events,
                           result |-> ValidateObjectDecide(object, errs).result])
    /\ torn' = (torn \/ PartlyApplied)
    /\ errors' = errors
    /\ StepFrame

\* take_errors, first phase: decide collects the values of the map as they
\* are now.
BeginTakeErrors(order) ==
    /\ ExclusiveBorrow
    /\ inflight' = Append(inflight,
                          [cmd |-> "TakeErrors", applied |-> 0,
                           events |-> TakeErrorsDecide(errors, order).events,
                           result |-> TakeErrorsDecide(errors, order).result])
    /\ torn' = (torn \/ PartlyApplied)
    /\ errors' = errors
    /\ StepFrame

\* process, second phase: the next event of the k-th call is applied.
EvolveStep(k) ==
    /\ k \in DOMAIN inflight
    /\ Len(inflight[k].events) > 0
    /\ errors' = Evolve(Head(inflight[k].events), errors)
    /\ inflight' = [inflight EXCEPT ![k].events = Tail(@),
                                    ![k].applied = @ + 1]
    /\ torn' = torn
    /\ StepFrame

\* process returns: all events of the k-th call are applied.
Return(k) ==
    /\ k \in DOMAIN inflight
    /\ Len(inflight[k].events) = 0
    /\ inflight' = SubSeq(inflight, 1, k - 1) \o SubSeq(inflight, k + 1, Len(inflight))
    /\ torn' = torn
    /\ errors' = errors
    /\ StepFrame

PNext ==
    \/ \E object \in Objects, errs \in SeqUpTo(Errors, MaxErrs) :
          BeginValidateObject(object, errs)
    \/ \E order \in Orders(DOMAIN errors) : BeginTakeErrors(order)
    \/ \E k \in 1..2 : EvolveStep(k)
    \/ \E k \in 1..2 : Return(k)

\* ------------------------------------------------------ ReferenceCounter

\* ReferenceCounter::new
RCNew == EmptyMap

\* ReferenceCounter::count: self.0.entry(to).or_default().push(from)
RCCount(rc, to, from) ==
    IF to \in DOMAIN rc THEN [rc EXCEPT ![to] = Append(@, from)]
    ELSE MapInsert(rc, to, <<from>>)

\* A multiples that emits, for a child referenced more than once, one record
\* per count call made for it (the list as it stood after that call) instead
\* of one record per map entry.
M_RCMultiples_PerCount(rc) ==
    UNION {{[object |-> k, referenced_by |-> SubSeq(rc[k], 1, n)] :
                n \in 1..Len(rc[k])} :
           k \in {x \in DOMAIN rc : Len(rc[x]) > 1}}

\* ReferenceCounter::multiples: one MultipleReferencesToObject per key whose
\* list is longer than 1. The map is iterated in no particular order, so the
\* records are modelled as a set.
RCMultiples(rc) ==
    {[object |-> k, referenced_by |-> rc[k]] :
        k \in {x \in DOMAIN rc : Len(rc[x]) > 1}}

\* The count calls of a traversal, refs being its <<to, from>> pairs in
\* traversal order.
RECURSIVE CountAll(_, _)
CountAll(rc, refs) ==
    IF Len(refs) = 0 THEN rc
    ELSE CountAll(RCCount(rc, Head(refs)[1], Head(refs)[2]), Tail(refs))

\* Concatenation of a sequence of sequences (nested for loops).
RECURSIVE Flatten(_)
Flatten(ss) == IF Len(ss) = 0 THEN <<>> ELSE Head(ss) \o Flatten(Tail(ss))

\* ---------------------------------------------------------------- topology

\* Number of stored half-edges.
NumHalfEdges == 2
\* Number of stored cycles.
NumCycles == 2
\* Number of regions that are stored in one run.
MaxRegions == 2
\* Number of faces that are stored in one run.
MaxFaces == 2

HalfEdges == 1..NumHalfEdges
CycleIds == 1..NumCycles

\* The half-edges of a cycle: a non-empty set of distinct handles, listed in
\* ascending order.
CycleBodies ==
    {q \in SeqUpTo(HalfEdges, NumHalfEdges) :
        /\ Len(q) > 0
        /\ \A i, j \in DOMAIN q : i < j => q[i] < q[j]}

NoReport == [run |-> "none"]

\* No sketch update has been made since the last other operation.
NoEdit == [op |-> "none"]

\* Region::new(exterior, interiors)
Region(exterior, interiors) == [exterior |-> exterior, interiors |-> interiors]

\* Region::all_cycles: the exterior, then the interiors.
AllCycles(region) == <<region.exterior>> \o region.interiors

\* The <<cycle, region>> references of the regions rs (handles), in
\* traversal order: for region in ..., for cycle in region.all_cycles().
CycleRegionRefs(rs, rg) ==
    Flatten([i \in DOMAIN rs |->
                [k \in DOMAIN AllCycles(rg[rs[i]]) |->
                    <<AllCycles(rg[rs[i]])[k], rs[i]>>]])

\* The <<half_edge, cycle>> references of the regions rs (handles), in
\* traversal order: for cycle in region.all_cycles(), for half_edge in
\* cycle.half_edges().
HalfEdgeCycleRefs(rs, rg, cs) ==
    Flatten([i \in DOMAIN rs |->
                Flatten([k \in DOMAIN AllCycles(rg[rs[i]]) |->
                    LET c == AllCycles(rg[rs[i]])[k]
                    IN  [h \in DOMAIN cs[c] |-> <<cs[c][h], c>>]])])

\* <MultipleReferencesToObject<Cycle, Region> as ValidationCheck<Sketch>>::check
SketchCycleRegionCheck(sk, rg) ==
    RCMultiples(CountAll(RCNew, CycleRegionRefs(sk, rg)))

\* <MultipleReferencesToObject<HalfEdge, Cycle> as ValidationCheck<Sketch>>::check
SketchHalfEdgeCycleCheck(sk, rg, cs) ==
    RCMultiples(CountAll(RCNew, HalfEdgeCycleRefs(sk, rg, cs)))

\* The faces of a solid in traversal order: for shell in object.shells(),
\* for face in shell.faces().
SolidFaces(sd) == Flatten(sd)

\* <MultipleReferencesToObject<Region, Face> as ValidationCheck<Solid>>::check
SolidRegionFaceCheck(sd) ==
    LET fs == SolidFaces(sd)
    IN  RCMultiples(CountAll(RCNew,
            [i \in DOMAIN fs |-> <<fs[i].region, fs[i].id>>]))

\* <MultipleReferencesToObject<Cycle, Region> as ValidationCheck<Solid>>::check
SolidCycleRegionCheck(sd, rg) ==
    LET fs == SolidFaces(sd)
    IN  RCMultiples(CountAll(RCNew,
            CycleRegionRefs([i \in DOMAIN fs |-> fs[i].region], rg)))

\* <MultipleReferencesToObject<HalfEdge, Cycle> as ValidationCheck<Solid>>::check
SolidHalfEdgeCycleCheck(sd, rg, cs) ==
    LET fs == SolidFaces(sd)
    IN  RCMultiples(CountAll(RCNew,
            HalfEdgeCycleRefs([i \in DOMAIN fs |-> fs[i].region], rg, cs)))

\* An add_regions that puts the added regions in front.
M_AddRegions_Prepend(exteriors) ==
    /\ Len(exteriors) > 0
    /\ Len(regions) + Len(exteriors) <= MaxRegions
    /\ regions' = regions \o [i \in DOMAIN exteriors |-> Region(exteriors[i], <<>>)]
    /\ sketch' = [i \in DOMAIN exteriors |-> Len(regions) + i] \o sketch
    /\ report' = NoReport
    /\ UNCHANGED <<cycles, solid, faces>>
    /\ edit' = [op |-> "add_regions", sketch |-> sketch, regions |-> regions,
                given |-> exteriors, errors |-> errors, last |-> last]
    /\ UNCHANGED <<vvars, hvars, pvars, gvars, fvars>>

\* <Sketch as UpdateSketch>::add_regions, the regions being newly stored
\* Region::new(exterior, vec![]), one per element of exteriors.
AddRegions(exteriors) ==
    /\ Len(exteriors) > 0
    /\ Len(regions) + Len(exteriors) <= MaxRegions
    /\ regions' = regions \o [i \in DOMAIN exteriors |-> Region(exteriors[i], <<>>)]
    /\ sketch' = sketch \o [i \in DOMAIN exteriors |-> Len(regions) + i]
    /\ report' = NoReport
    /\ UNCHANGED <<cycles, solid, faces>>
    /\ edit' = [op |-> "add_regions", sketch |-> sketch, regions |-> regions,
                given |-> exteriors, errors |-> errors, last |-> last]
    /\ UNCHANGED <<vvars, hvars, pvars, gvars, fvars>>

\* <Sketch as UpdateSketch>::update_region, the update being
\* region.add_interiors([cycle]): the handle is replaced, in place, by the
\* handle of a newly stored region with one more interior.
UpdateRegion(handle, cycle) ==
    /\ handle \in Range(sketch)
    /\ Len(regions) < MaxRegions
    /\ cycle \notin Range(regions[handle].interiors)
    /\ regions' = Append(regions,
                    Region(regions[handle].exterior,
                           Append(regions[handle].interiors, cycle)))
    /\ sketch' = [i \in DOMAIN sketch |->
                    IF sketch[i] = handle THEN Len(regions) + 1 ELSE sketch[i]]
    /\ report' = NoReport
    /\ UNCHANGED <<cycles, solid, faces>>
    /\ edit' = NoEdit
    /\ UNCHANGED <<vvars, hvars, pvars, gvars, fvars>>

\* One run of the two sketch checks on the current sketch.
CheckSketch ==
    /\ report' = [run |-> "sketch",
                  cycle_region |-> SketchCycleRegionCheck(sketch, regions),
                  half_edge_cycle |->
                      SketchHalfEdgeCycleCheck(sketch, regions, cycles)]
    /\ UNCHANGED <<cycles, regions, sketch, solid, faces>>
    /\ edit' = NoEdit
    /\ UNCHANGED <<vvars, hvars, pvars, gvars, fvars>>

\* A newly stored face of the stored region is added to shell s of the
\* solid, or to a new shell (s = Len(solid) + 1).
AddFace(s, region) ==
    /\ s \in 1..(Len(solid) + 1)
    /\ region \in DOMAIN regions
    /\ faces < MaxFaces
    /\ faces' = faces + 1
    /\ solid' = IF s = Len(solid) + 1
                THEN Append(solid, <<[id |-> faces + 1, region |-> region]>>)
                ELSE [solid EXCEPT ![s] =
                        Append(@, [id |-> faces + 1, region |-> region])]
    /\ report' = NoReport
    /\ UNCHANGED <<cycles, regions, sketch>>
    /\ edit' = NoEdit
    /\ UNCHANGED <<vvars, hvars, pvars, gvars, fvars>>

\* One run of the three solid checks on the current solid.
CheckSolid ==
    /\ report' = [run |-> "solid",
                  region_face |-> SolidRegionFaceCheck(solid),
                  cycle_region |-> SolidCycleRegionCheck(solid, regions),
                  half_edge_cycle |->
                      SolidHalfEdgeCycleCheck(solid, regions, cycles)]
    /\ UNCHANGED <<cycles, regions, sketch, solid, faces>>
    /\ edit' = NoEdit
    /\ UNCHANGED <<vvars, hvars, pvars, gvars, fvars>>

SInit ==
    /\ cycles \in [CycleIds -> CycleBodies]
    /\ regions = <<>>
    /\ sketch = <<>>
    /\ solid = <<>>
    /\ faces = 0
    /\ report = NoReport
    /\ edit = NoEdit

\* No topology: its state while only the Validation layer runs.
SIdle ==
    /\ cycles = <<>>
    /\ regions = <<>>
    /\ sketch = <<>>
    /\ solid = <<>>
    /\ faces = 0
    /\ report = NoReport
    /\ edit = NoEdit

\* The stored cycles are empty, as Cycle::new([]) makes them; nothing else is
\* stored yet.
SInitEmptyCycles ==
    /\ cycles = [c \in CycleIds |-> <<>>]
    /\ regions = <<>>
    /\ sketch = <<>>
    /\ solid = <<>>
    /\ faces = 0
    /\ report = NoReport
    /\ edit = NoEdit

\* A host that adds regions to its sketch, validates objects one failure at
\* a time, and drains the failures.
EditNext ==
    \/ \E exteriors \in SeqUpTo(CycleIds, MaxRegions) : AddRegions(exteriors)
    \/ \E object \in Objects, errs \in SeqUpTo(Errors, 1) :
          /\ ValidateObject(object, errs)
          /\ edit' = NoEdit
          /\ UNCHANGED <<emitted, drained, log>>
    \/ \E order \in Orders(DOMAIN errors) :
          /\ TakeErrors(order)
          /\ edit' = NoEdit
          /\ UNCHANGED <<emitted, drained, log>>

SNext ==
    \/ \E exteriors \in SeqUpTo(CycleIds, MaxRegions) : AddRegions(exteriors)
    \/ \E handle \in 1..MaxRegions, cycle \in CycleIds : UpdateRegion(handle, cycle)
    \/ CheckSketch

SolidNext ==
    \/ \E exteriors \in SeqUpTo(CycleIds, MaxRegions) : AddRegions(exteriors)
    \/ \E handle \in 1..MaxRegions, cycle \in CycleIds : UpdateRegion(handle, cycle)
    \/ \E s \in 1..MaxFaces, region \in 1..MaxRegions : AddFace(s, region)
    \/ CheckSketch
    \/ CheckSolid

\* ------------------------------------------------------ Handle and Storage

\* Number of memory addresses the allocator hands out.
NumAddrs == 2
\* Number of distinct values of T.
NumValues == 2
\* Most Storage and Handle values in existence at a time.
MaxRefs == 3
\* Most cells created by Storage::new in a run.
MaxCells == 3

Addrs == 1..NumAddrs
Values == 1..NumValues

\* An address that holds no cell.
Free == [live |-> FALSE]

\* Arc::new(value), the allocator placing the cell at address a: one strong
\* reference. cell numbers the allocation.
ArcNew(a, value, cell) ==
    [heap EXCEPT ![a] = [live |-> TRUE, value |-> value, strong |-> 1,
                         cell |-> cell]]

\* A clone that does not count the new reference.
M_ArcClone_NoIncrement(a) == heap

\* Arc::clone: one more strong reference to the cell at a.
ArcClone(a) ==
    IF heap[a].live THEN [heap EXCEPT ![a].strong = @ + 1] ELSE heap

\* A drop that never gives the cell back.
M_ArcDrop_Leak(a) ==
    IF heap[a].live /\ heap[a].strong > 1
    THEN [heap EXCEPT ![a].strong = @ - 1]
    ELSE heap

\* Dropping a Storage drops its Arc: one strong reference less, and the cell
\* is freed with the last one.
ArcDrop(a) ==
    IF ~heap[a].live THEN heap
    ELSE IF heap[a].strong = 1 THEN [heap EXCEPT ![a] = Free]
    ELSE [heap EXCEPT ![a].strong = @ - 1]

\* Storage::ptr
StoragePtr(x) == x.ptr

\* Storage::get: the value behind the Arc.
StorageGet(x) == heap[StoragePtr(x)].value

\* Handle::get
HandleGet(x) == StorageGet(x)

\* An equality that compares the stored values.
M_StorageEq_ByValue(x, y) == StorageGet(x) = StorageGet(y)

\* <Storage as PartialEq>::eq: Arc::ptr_eq
StorageEq(x, y) == StoragePtr(x) = StoragePtr(y)

\* <Handle as PartialEq>::eq (derived): the equality of the storage field.
HandleEq(x, y) == StorageEq(x, y)

\* <Storage as Hash>::hash: what is fed to the hasher is the pointer.
StorageHash(x) == <<StoragePtr(x)>>

\* <Handle as Hash>::hash (derived): the hash of the storage field.
HandleHash(x) == StorageHash(x)

\* <Storage as Ord>::cmp (derived): the cmp of the field, and Arc<T>::cmp
\* compares the values behind the two Arcs.
StorageCmp(x, y) ==
    IF StorageGet(x) < StorageGet(y) THEN "Less"
    ELSE IF StorageGet(x) = StorageGet(y) THEN "Equal"
    ELSE "Greater"

\* <Handle as Ord>::cmp (derived): the cmp of the storage field.
HandleCmp(x, y) == StorageCmp(x, y)

\* arcs without its i-th element (the value goes out of scope).
Remove(q, i) == SubSeq(q, 1, i - 1) \o SubSeq(q, i + 1, Len(q))

\* Storage::new(value), the cell being allocated at address a.
StorageNew(value, a) ==
    /\ ~heap[a].live
    /\ Len(arcs) < MaxRefs
    /\ Len(made) < MaxCells
    /\ heap' = ArcNew(a, value, Len(made) + 1)
    /\ arcs' = Append(arcs, [kind |-> "storage", ptr |-> a,
                             cell |-> Len(made) + 1])
    /\ made' = Append(made, value)
    /\ UNCHANGED <<vvars, pvars, svars, edit, gvars, fvars>>

\* Storage::handle on the i-th value: a Handle holding a clone of it.
StorageHandle(i) ==
    /\ i \in DOMAIN arcs
    /\ arcs[i].kind = "storage"
    /\ Len(arcs) < MaxRefs
    /\ heap' = ArcClone(arcs[i].ptr)
    /\ arcs' = Append(arcs, [arcs[i] EXCEPT !.kind = "handle"])
    /\ made' = made
    /\ UNCHANGED <<vvars, pvars, svars, edit, gvars, fvars>>

\* <Handle as Clone>::clone on the i-th value (derived: Storage::clone).
HandleClone(i) ==
    /\ i \in DOMAIN arcs
    /\ arcs[i].kind = "handle"
    /\ Len(arcs) < MaxRefs
    /\ heap' = ArcClone(arcs[i].ptr)
    /\ arcs' = Append(arcs, arcs[i])
    /\ made' = made
    /\ UNCHANGED <<vvars, pvars, svars, edit, gvars, fvars>>

\* The i-th value, a Storage or a Handle, is dropped.
DropRef(i) ==
    /\ i \in DOMAIN arcs
    /\ heap' = ArcDrop(arcs[i].ptr)
    /\ arcs' = Remove(arcs, i)
    /\ made' = made
    /\ UNCHANGED <<vvars, pvars, svars, edit, gvars, fvars>>

\* An empty store: nothing allocated, no Storage, no Handle.
HInit ==
    /\ heap = [a \in Addrs |-> Free]
    /\ arcs = <<>>
    /\ made = <<>>

HNext ==
    \/ \E value \in Values, a \in Addrs : StorageNew(value, a)
    \/ \E i \in 1..MaxRefs : StorageHandle(i)
    \/ \E i \in 1..MaxRefs : HandleClone(i)
    \/ \E i \in 1..MaxRefs : DropRef(i)

\* ----------------------------------------------------------------- Geometry

\* Number of surfaces besides the 2D space and the three basis planes.
NumSurfaces == 1
\* Number of curves.
NumCurves == 1
\* Number of vertices.
NumVertices == 1

\* Geometry::space_2d, xy_plane, xz_plane, yz_plane: the handles taken from
\* the topology, four different surfaces.
Space2d == <<"space_2d", 0>>
XyPlane == <<"xy_plane", 0>>
XzPlane == <<"xz_plane", 0>>
YzPlane == <<"yz_plane", 0>>

BasisPlanes == {XyPlane, XzPlane, YzPlane}
UserSurfaces == {<<"surface", i>> : i \in 1..NumSurfaces}
Surfaces == {Space2d} \cup BasisPlanes \cup UserSurfaces
Curves == 1..NumCurves
Vertices == 1..NumVertices

\* SurfaceGeom { u, v }
SurfaceGeom(u, v) == [u |-> u, v |-> v]
SurfaceGeoms == {SurfaceGeom(u, v) : u \in {"x_axis", "y_axis"},
                                     v \in {"unit_y", "unit_z"}}
\* LocalCurveGeom and LocalVertexGeom values.
LocalCurveGeoms == {"line", "circle"}
LocalVertexGeoms == {"front", "back"}

\* The geometry Geometry::new gives the basis planes.
XyGeom == SurfaceGeom("x_axis", "unit_y")
XzGeom == SurfaceGeom("x_axis", "unit_z")
YzGeom == SurfaceGeom("y_axis", "unit_z")

\* A define_surface_inner without the test for the 2D space.
M_DefineSurfaceInner_NoSpace2dTest(m, surface, geometry) ==
    IF surface \in DOMAIN m /\ surface \in BasisPlanes
    THEN [panic |-> TRUE, surface |-> m]
    ELSE [panic |-> FALSE, surface |-> MapInsert(m, surface, geometry)]

\* A define_surface_inner without the test for the basis planes.
M_DefineSurfaceInner_NoBasisTest(m, surface, geometry) ==
    IF surface = Space2d
    THEN [panic |-> TRUE, surface |-> m]
    ELSE [panic |-> FALSE, surface |-> MapInsert(m, surface, geometry)]

\* Geometry::define_surface_inner on the surface map m: whether the call
\* panics, and the map afterwards. Both panics come before the insert.
DefineSurfaceInner(m, surface, geometry) ==
    IF surface = Space2d
    THEN [panic |-> TRUE, surface |-> m]
    ELSE IF surface \in DOMAIN m /\ surface \in BasisPlanes
    THEN [panic |-> TRUE, surface |-> m]
    ELSE [panic |-> FALSE, surface |-> MapInsert(m, surface, geometry)]

\* Geometry::new: empty maps, then the three basis planes defined in turn.
GeometryNew ==
    LET xy == DefineSurfaceInner(EmptyMap, XyPlane, XyGeom)
        xz == DefineSurfaceInner(xy.surface, XzPlane, XzGeom)
        yz == DefineSurfaceInner(xz.surface, YzPlane, YzGeom)
    IN  [panic |-> xy.panic \/ xz.panic \/ yz.panic,
         curve |-> EmptyMap, surface |-> yz.surface, vertex |-> EmptyMap]

\* entry(key).or_default().definitions.insert(to, geometry) on the map m.
DefineIn(m, key, to, geometry) ==
    MapInsert(m, key,
              MapInsert(IF key \in DOMAIN m THEN m[key] ELSE EmptyMap,
                        to, geometry))

\* A lookup of a surface that answers absence instead of panicking.
M_OfSurface_Absent(surface) ==
    IF surface \in DOMAIN gsurface
    THEN [kind |-> "value", value |-> gsurface[surface]]
    ELSE [kind |-> "none"]

\* Geometry::of_surface: get(surface).expect(..)
OfSurface(surface) ==
    IF surface \in DOMAIN gsurface
    THEN [kind |-> "value", value |-> gsurface[surface]]
    ELSE [kind |-> "panic"]

\* Geometry::of_curve: get(curve)
OfCurve(curve) ==
    IF curve \in DOMAIN gcurve
    THEN [kind |-> "some", value |-> gcurve[curve]]
    ELSE [kind |-> "none"]

\* Geometry::of_vertex: get(vertex)
OfVertex(vertex) ==
    IF vertex \in DOMAIN gvertex
    THEN [kind |-> "some", value |-> gvertex[vertex]]
    ELSE [kind |-> "none"]

\* Whether a step changes one of the three maps.
MapsChange == <<gsurface, gcurve, gvertex>>' # <<gsurface, gcurve, gvertex>>

\* What a call on the Geometry leaves alone.
GeometryFrame == UNCHANGED <<vvars, pvars, svars, hvars, edit, fvars>>

\* A call of define_surface_inner.
DefineSurface(surface, geometry) ==
    LET d == DefineSurfaceInner(gsurface, surface, geometry)
    IN  /\ gsurface' = d.surface
        /\ UNCHANGED <<gcurve, gvertex>>
        /\ glast' = [op |-> "define_surface", surface |-> surface,
                     geometry |-> geometry, panic |-> d.panic,
                     redefined |-> surface \in DOMAIN gsurface,
                     changed |-> MapsChange]
        /\ GeometryFrame

\* A call of define_curve_inner.
DefineCurve(curve, surface, geometry) ==
    /\ gcurve' = DefineIn(gcurve, curve, surface, geometry)
    /\ UNCHANGED <<gsurface, gvertex>>
    /\ glast' = [op |-> "define_curve", panic |-> FALSE, changed |-> MapsChange]
    /\ GeometryFrame

\* A call of define_vertex_inner.
DefineVertex(vertex, curve, geometry) ==
    /\ gvertex' = DefineIn(gvertex, vertex, curve, geometry)
    /\ UNCHANGED <<gsurface, gcurve>>
    /\ glast' = [op |-> "define_vertex", panic |-> FALSE, changed |-> MapsChange]
    /\ GeometryFrame

\* A call of of_surface.
CallOfSurface(surface) ==
    /\ UNCHANGED <<gsurface, gcurve, gvertex>>
    /\ glast' = [op |-> "of_surface", surface |-> surface,
                 defined |-> surface \in DOMAIN gsurface,
                 result |-> OfSurface(surface), changed |-> MapsChange]
    /\ GeometryFrame

\* A call of xy_plane, xz_plane or yz_plane: of_surface of that plane.
CallBasisPlane(plane) ==
    /\ UNCHANGED <<gsurface, gcurve, gvertex>>
    /\ glast' = [op |-> "basis_plane", surface |-> plane,
                 defined |-> plane \in DOMAIN gsurface,
                 result |-> OfSurface(plane), changed |-> MapsChange]
    /\ GeometryFrame

\* A call of of_curve.
CallOfCurve(curve) ==
    /\ UNCHANGED <<gsurface, gcurve, gvertex>>
    /\ glast' = [op |-> "of_curve", defined |-> curve \in DOMAIN gcurve,
                 result |-> OfCurve(curve), changed |-> MapsChange]
    /\ GeometryFrame

\* A call of of_vertex.
CallOfVertex(vertex) ==
    /\ UNCHANGED <<gsurface, gcurve, gvertex>>
    /\ glast' = [op |-> "of_vertex", defined |-> vertex \in DOMAIN gvertex,
                 result |-> OfVertex(vertex), changed |-> MapsChange]
    /\ GeometryFrame

\* The Geometry as Geometry::new returns it.
GInit ==
    /\ gsurface = GeometryNew.surface
    /\ gcurve = GeometryNew.curve
    /\ gvertex = GeometryNew.vertex
    /\ glast = [op |-> "new", panic |-> GeometryNew.panic, changed |-> TRUE]

\* Calls that define and look up surfaces.
SurfaceNext ==
    \/ \E surface \in Surfaces, geometry \in SurfaceGeoms :
          DefineSurface(surface, geometry)
    \/ \E surface \in Surfaces : CallOfSurface(surface)
    \/ \E plane \in BasisPlanes : CallBasisPlane(plane)

\* All calls on the Geometry, curves being defined on the xy-plane and
\* vertices on the first curve.
GNext ==
    \/ \E surface \in Surfaces, geometry \in SurfaceGeoms :
          DefineSurface(surface, geometry)
    \/ \E curve \in Curves, geometry \in LocalCurveGeoms :
          DefineCurve(curve, XyPlane, geometry)
    \/ \E vertex \in Vertices, geometry \in LocalVertexGeoms :
          DefineVertex(vertex, 1, geometry)
    \/ \E surface \in Surfaces : CallOfSurface(surface)
    \/ \E plane \in BasisPlanes : CallBasisPlane(plane)
    \/ \E curve \in Curves : CallOfCurve(curve)
    \/ \E vertex \in Vertices : CallOfVertex(vertex)

\* --------------------------------------------------- validation of a face

\* Most interior cycles of a face.
MaxInteriors == 2
\* Most entries of the error sink.
MaxSink == 3

\* The orientation of a cycle.
Windings == {"ccw", "cw"}
\* ValidationConfig values.
Configs == {"default", "strict"}

\* A face, as far as its two checks look at it: whether its cycles enclose
\* it without a gap, the orientation of its exterior cycle, and the
\* orientations of its interior cycles.
Faces ==
    [closed : BOOLEAN, exterior : Windings,
     interiors : SeqUpTo(Windings, MaxInteriors)]

\* The elements of a set of numbers in increasing order.
Ascending(S) ==
    CHOOSE f \in [1..Cardinality(S) -> S] :
        \A a, b \in 1..Cardinality(S) : a < b => f[a] < f[b]

\* FaceHasNoBoundary::check: one error if the face's boundary does not
\* enclose it.
FaceHasNoBoundaryCheck(face, geometry, config) ==
    IF face.closed THEN <<>> ELSE <<[kind |-> "FaceHasNoBoundary"]>>

\* InteriorCycleHasInvalidWinding::check: one error for each interior cycle
\* that winds the way the exterior does, in the order of the interiors.
InteriorCycleHasInvalidWindingCheck(face, geometry, config) ==
    LET bad == {i \in DOMAIN face.interiors : face.interiors[i] = face.exterior}
    IN  [k \in 1..Cardinality(bad) |->
            [kind |-> "InteriorCycleHasInvalidWinding",
             interior |-> Ascending(bad)[k]]]

\* What a check was handed.
Handed(check, geometry, config) ==
    [check |-> check, geometry |-> geometry, config |-> config]

\* A validate that runs the boundary check only.
M_FaceValidate_BoundaryOnly(face, config, errs, geometry) ==
    [errors |-> errs \o FaceHasNoBoundaryCheck(face, geometry, config),
     handed |-> <<Handed("FaceHasNoBoundary", geometry, config)>>]

\* A validate that runs the winding check before the boundary check.
M_FaceValidate_WindingFirst(face, config, errs, geometry) ==
    [errors |-> errs
                  \o InteriorCycleHasInvalidWindingCheck(face, geometry, config)
                  \o FaceHasNoBoundaryCheck(face, geometry, config),
     handed |-> <<Handed("InteriorCycleHasInvalidWinding", geometry, config),
                  Handed("FaceHasNoBoundary", geometry, config)>>]

\* <Face as Validate>::validate: errors.extend(FaceHasNoBoundary::check(..)),
\* then errors.extend(InteriorCycleHasInvalidWinding::check(..)); both checks
\* get the geometry and the config of the caller.
FaceValidate(face, config, errs, geometry) ==
    [errors |-> errs
                  \o FaceHasNoBoundaryCheck(face, geometry, config)
                  \o InteriorCycleHasInvalidWindingCheck(face, geometry, config),
     handed |-> <<Handed("FaceHasNoBoundary", geometry, config),
                  Handed("InteriorCycleHasInvalidWinding", geometry, config)>>]

\* The Geometry as a value handed to validate.
TheGeometry == [curve |-> gcurve, surface |-> gsurface, vertex |-> gvertex]

\* What the validation of a face leaves alone.
FaceFrame == UNCHANGED <<vvars, pvars, svars, hvars, edit, gvars>>

\* face.validate(config, &mut sink, geometry)
ValidateFace(face, config) ==
    LET v == FaceValidate(face, config, sink, TheGeometry)
    IN  /\ Len(v.errors) <= MaxSink
        /\ sink' = v.errors
        /\ flast' = [op |-> "validate", face |-> face, config |-> config,
                     geometry |-> TheGeometry, pre |-> sink,
                     handed |-> v.handed]
        /\ FaceFrame

\* The validation of another object pushes an error into the sink.
PushOther ==
    /\ Len(sink) < MaxSink
    /\ sink' = Append(sink, [kind |-> "Other"])
    /\ flast' = [op |-> "other"]
    /\ FaceFrame

\* An empty sink, nothing validated.
FInit ==
    /\ sink = <<>>
    /\ flast = [op |-> "none"]

FNext ==
    \/ \E face \in Faces, config \in Configs : ValidateFace(face, config)
    \/ PushOther

\* ---------------------------------------------------------- specifications

vars == <<vvars, pvars, svars, hvars, edit, gvars, fvars>>

InitValidation == VInit /\ SIdle /\ HInit /\ GInit /\ FInit

\* The Validation layer under any sequence of ValidateObject and TakeErrors
\* (no topology is built).
SpecValidation == InitValidation /\ [][VNext]_vars

\* The same, recording what has been emitted since the last drain.
SpecValidationLog == InitValidation /\ [][VNextLog]_vars

\* The same, recording which objects failed validation since the last drain.
SpecValidationCalls == InitValidation /\ [][VNextCalls]_vars

\* The same, keeping the log of all events applied.
SpecValidationReplay == InitValidation /\ [][VNextReplay]_vars

\* The same commands, each process call taken as its steps: decide, one
\* step per event applied, return.
SpecValidationSteps == InitValidation /\ [][PNext]_vars

InitTopology == VInit /\ SInit /\ HInit /\ GInit /\ FInit

\* Sketches built by add_regions and update_region, and checked (the
\* Validation layer is not used).
SpecSketch == InitTopology /\ [][SNext]_vars

InitSketchEdit == VInit /\ SInitEmptyCycles /\ HInit /\ GInit /\ FInit

\* A sketch that grows by add_regions while objects are validated and
\* failures drained.
SpecSketchEdit == InitSketchEdit /\ [][EditNext]_vars

\* Solids whose faces refer to stored regions, built and checked.
SpecSolid == InitTopology /\ [][SolidNext]_vars

InitHandle == VInit /\ SIdle /\ HInit /\ GInit /\ FInit

\* Objects stored, handles made, cloned and dropped (no validation, no
\* topology).
SpecHandle == InitHandle /\ [][HNext]_vars

InitGeometry == VInit /\ SIdle /\ HInit /\ GInit /\ FInit

\* A Geometry under any sequence of definitions and lookups.
SpecGeometry == InitGeometry /\ [][GNext]_vars

\* A Geometry under definitions and lookups of surfaces only.
SpecSurfaces == InitGeometry /\ [][SurfaceNext]_vars

InitFace == VInit /\ SIdle /\ HInit /\ GInit /\ FInit

\* Faces validated into one error sink, among errors of other objects.
SpecFace == InitFace /\ [][FNext]_vars

\* ------------------------------------------------- claims: Validation layer

\* C1: TakeErrors returns Ok if and only if the map of recorded failures is
\* empty when the command is decided; otherwise it returns an aggregate
\* error holding at least one failure.
C1_OkIffNoFailures ==
    last.cmd = "TakeErrors" =>
        /\ (last.result = Ok) <=> (DOMAIN last.pre = {})
        /\ DOMAIN last.pre # {} =>
              /\ last.result.ok = FALSE
              /\ Len(last.result.errs) > 0

C1_Witness ==
    /\ last.cmd = "TakeErrors"
    /\ DOMAIN last.pre # {}
    /\ last.result.ok = FALSE

\* C2: after every TakeErrors call, whatever preceded it and whatever it
\* returned, no failure is recorded, and the call emitted exactly one
\* clearing event, also when nothing was recorded.
C2_DrainClears ==
    last.cmd = "TakeErrors" =>
        /\ DOMAIN errors = {}
        /\ last.events = <<[type |-> "TakeErrors"]>>

C2_Witness ==
    /\ last.cmd = "TakeErrors"
    /\ Cardinality(DOMAIN last.pre) = NumObjects
    /\ last.result.ok = FALSE
    /\ DOMAIN errors = {}

\* C3: a TakeErrors call whose immediately preceding command was also
\* TakeErrors returns success, however many failures the first one returned.
C3_DrainIdempotent ==
    (last.cmd = "TakeErrors" /\ prev.cmd = "TakeErrors") => last.result = Ok

C3_Witness ==
    /\ last.cmd = "TakeErrors"
    /\ prev.cmd = "TakeErrors"
    /\ prev.result.ok = FALSE
    /\ Len(prev.result.errs) >= 2
    /\ last.result = Ok

\* C4: a ValidateObject call never removes a recorded failure; one whose
\* validation routine produced no error leaves the recorded failures exactly
\* unchanged, and a call for object A leaves the failure recorded for every
\* other object B as it was.
C4_ValidateObjectFrame ==
    last.cmd = "ValidateObject" =>
        /\ DOMAIN last.pre \subseteq DOMAIN errors
        /\ last.errs = <<>> => errors = last.pre
        /\ \A b \in DOMAIN last.pre :
              b # last.object => errors[b] = last.pre[b]

C4_Witness ==
    /\ last.cmd = "ValidateObject"
    /\ last.errs = <<>>
    /\ last.object \in DOMAIN last.pre
    /\ \E b \in DOMAIN last.pre : b # last.object
    /\ errors = last.pre

\* C5: ValidateObject returns no command-level error: for k errors produced
\* by the validation routine it returns unit and emits exactly k
\* ValidationFailed events, the i-th carrying the validated object and the
\* i-th error.
C5_OneEventPerError ==
    last.cmd = "ValidateObject" =>
        /\ last.result = "unit"
        /\ Len(last.events) = Len(last.errs)
        /\ \A i \in 1..Len(last.errs) :
              last.events[i] = [type |-> "ValidationFailed",
                                object |-> last.object, err |-> last.errs[i]]

C5_Witness ==
    /\ last.cmd = "ValidateObject"
    /\ Len(last.errs) = 2
    /\ last.errs[1] # last.errs[2]
    /\ Len(last.events) = 2

\* C6 (the claim as stated): a failed TakeErrors returns every error carried
\* by a ValidationFailed event emitted since the previous drain.
C6_DrainIsComplete ==
    (last.cmd = "TakeErrors" /\ last.result.ok = FALSE) =>
        \A p \in drained : p[2] \in Range(last.result.errs)

\* All states the errors map can be in.
AllErrorMaps == UNION {[S -> Errors] : S \in SUBSET Objects}

\* C7 (the claim as stated): the aggregate returned by a failed TakeErrors
\* determines, for each failure, the object it was recorded against: no
\* other assignment of failures to objects yields the same returned value.
C7_AggregateDeterminesObjects ==
    (last.cmd = "TakeErrors" /\ last.result.ok = FALSE) =>
        \A m \in AllErrorMaps : \A order \in Orders(DOMAIN m) :
            TakeErrorsDecide(m, order).result = last.result => m = last.pre

\* C7 (amended): the aggregate returned by a failed TakeErrors holds exactly
\* one entry per object with a recorded failure, each entry being the failure
\* recorded against that object at call time; the entries are the errors
\* alone, the objects' identities are not part of the returned value.
C7_AggregateIsRecordedValues ==
    (last.cmd = "TakeErrors" /\ last.result.ok = FALSE) =>
        /\ \E order \in Orders(DOMAIN last.pre) :
              last.result.errs = [i \in 1..Len(order) |-> last.pre[order[i]]]
        /\ \A i \in DOMAIN last.result.errs : last.result.errs[i] \in Errors

C7_Witness ==
    /\ last.cmd = "TakeErrors"
    /\ last.result.ok = FALSE
    /\ Len(last.result.errs) = 2
    /\ last.result.errs[1] = last.result.errs[2]

\* ---------------------------------------------- claims: reference counting

\* The objects of the current sketch and solid, and who references whom,
\* read off the object graph (not off a ReferenceCounter).

\* The cycles a set of regions (handles) refers to.
CyclesOf(rs) == UNION {Range(AllCycles(regions[r])) : r \in rs}

\* The regions among rs that refer to the cycle.
RegionsReferencing(cycle, rs) ==
    {r \in rs : cycle \in Range(AllCycles(regions[r]))}

\* The cycles among cs that refer to the half-edge.
CyclesReferencing(half_edge, cs) ==
    {c \in cs : half_edge \in Range(cycles[c])}

\* The regions the faces of the solid refer to.
SolidRegions == {f.region : f \in Range(SolidFaces(solid))}

\* The faces (handles) of the solid that refer to the region.
FacesReferencing(region) ==
    {f.id : f \in {g \in Range(SolidFaces(solid)) : g.region = region}}

\* The check output out holds exactly one record for child, and its list is
\* the parents, each once.
OneRecordListing(out, child, parents) ==
    \E v \in out :
        /\ v.object = child
        /\ Len(v.referenced_by) = Cardinality(parents)
        /\ Range(v.referenced_by) = parents
        /\ \A w \in out : w.object = child => w = v

\* C8 (the claim as stated): a child referenced by n >= 2 distinct parents
\* under an exclusive-ownership edge is reported by the corresponding check
\* in exactly one record, whose parent list has length n and holds exactly
\* those n parents.
C8_OneRecordOfLengthN ==
    /\ report.run = "sketch" =>
        /\ \A c \in CycleIds :
              Cardinality(RegionsReferencing(c, Range(sketch))) >= 2 =>
                  OneRecordListing(report.cycle_region, c,
                                   RegionsReferencing(c, Range(sketch)))
        /\ \A h \in HalfEdges :
              Cardinality(CyclesReferencing(h, CyclesOf(Range(sketch)))) >= 2 =>
                  OneRecordListing(report.half_edge_cycle, h,
                                   CyclesReferencing(h, CyclesOf(Range(sketch))))
    /\ report.run = "solid" =>
        /\ \A r \in SolidRegions :
              Cardinality(FacesReferencing(r)) >= 2 =>
                  OneRecordListing(report.region_face, r, FacesReferencing(r))
        /\ \A c \in CycleIds :
              Cardinality(RegionsReferencing(c, SolidRegions)) >= 2 =>
                  OneRecordListing(report.cycle_region, c,
                                   RegionsReferencing(c, SolidRegions))
        /\ \A h \in HalfEdges :
              Cardinality(CyclesReferencing(h, CyclesOf(SolidRegions))) >= 2 =>
                  OneRecordListing(report.half_edge_cycle, h,
                                   CyclesReferencing(h, CyclesOf(SolidRegions)))

\* The parents in a list are pairwise distinct.
PairwiseDistinct(q) == \A i, j \in DOMAIN q : i # j => q[i] # q[j]

\* C9 (the claim as stated): a reference-count check reports a child if and
\* only if more than one distinct parent references it, and every reported
\* parent list holds pairwise distinct parents.
C9_ReportedIffSeveralParents ==
    report.run = "sketch" =>
        /\ \A c \in CycleIds :
              (\E v \in report.cycle_region : v.object = c)
                  <=> Cardinality(RegionsReferencing(c, Range(sketch))) > 1
        /\ \A h \in HalfEdges :
              (\E v \in report.half_edge_cycle : v.object = h)
                  <=> Cardinality(CyclesReferencing(h, CyclesOf(Range(sketch)))) > 1
        /\ \A v \in report.cycle_region \cup report.half_edge_cycle :
              PairwiseDistinct(v.referenced_by)

\* C10 (the claim as stated): in a sketch where a cycle is shared by two
\* regions but every half-edge is referenced by at most one cycle, the
\* HalfEdge-Cycle check reports nothing; in a solid where a region is shared
\* by two faces but every cycle is referenced by at most one region, the
\* Cycle-Region check reports nothing.
C10_OnlyTheDeclaredEdge ==
    /\ (/\ report.run = "sketch"
        /\ \E c \in CycleIds :
              Cardinality(RegionsReferencing(c, Range(sketch))) >= 2
        /\ \A h \in HalfEdges :
              Cardinality(CyclesReferencing(h, CyclesOf(Range(sketch)))) <= 1)
       => report.half_edge_cycle = {}
    /\ (/\ report.run = "solid"
        /\ \E r \in SolidRegions : Cardinality(FacesReferencing(r)) >= 2
        /\ \A c \in CycleIds :
              Cardinality(RegionsReferencing(c, SolidRegions)) <= 1)
       => report.cycle_region = {}

\* C11: in the output of one run of a reference-count check no two violation
\* records name the same child, however many parents reference it and however
\* many count calls were made for it.
C11_OneRecordPerChild ==
    report.run = "sketch" =>
        /\ \A v, w \in report.cycle_region : v.object = w.object => v = w
        /\ \A v, w \in report.half_edge_cycle : v.object = w.object => v = w

\* A sketch check has reported a half-edge for which count was called more
\* than once and a cycle for which count was called more than once.
C11_Witness ==
    /\ report.run = "sketch"
    /\ \E v \in report.half_edge_cycle : Len(v.referenced_by) >= 2
    /\ \E v \in report.cycle_region : Len(v.referenced_by) >= 2

\* C12 (the claim as stated): for a sketch in which every cycle is referenced
\* by exactly one region, the Cycle-Region check yields no violation.
C12_LegalSharingIsSilent ==
    (/\ report.run = "sketch"
     /\ \A c \in CyclesOf(Range(sketch)) :
           Cardinality(RegionsReferencing(c, Range(sketch))) = 1)
        => report.cycle_region = {}

\* The sketch holds a region that has the interior cycle c2 built from the
\* same half-edges as its exterior cycle.
SharesExteriorHalfEdges(r, c2) ==
    /\ c2 \in Range(regions[r].interiors)
    /\ c2 # regions[r].exterior
    /\ cycles[c2] = cycles[regions[r].exterior]

\* C13 (the claim as stated): the HalfEdge-Cycle check of a sketch yields no
\* error when every half-edge belongs to exactly one cycle, and once a region
\* has been updated with an interior cycle built from the half-edges of its
\* exterior it yields an error for each of these half-edges, one per half-edge.
C13_HalfEdgeCycleCheck ==
    report.run = "sketch" =>
        /\ (\A h \in HalfEdges :
                Cardinality(CyclesReferencing(h, CyclesOf(Range(sketch)))) <= 1)
               => report.half_edge_cycle = {}
        /\ \A r \in Range(sketch), c2 \in CycleIds :
              SharesExteriorHalfEdges(r, c2) =>
                  \A h \in Range(cycles[c2]) :
                      Cardinality({v \in report.half_edge_cycle : v.object = h}) = 1

\* --------------------------------------------- claims: Handle and Storage

\* C14: two handles are equal if and only if they refer to the same cell; so
\* a clone equals its original, and handles to two cells made independently
\* are unequal even when the cells hold equal values.
C14_EqualityIsIdentity ==
    \A i, j \in DOMAIN arcs :
        HandleEq(arcs[i], arcs[j]) <=> arcs[i].cell = arcs[j].cell

\* A handle and its clone exist next to a handle to another cell that holds
\* an equal value.
C14_Witness ==
    \E i, j, k \in DOMAIN arcs :
        /\ i # j
        /\ arcs[i].kind = "handle" /\ arcs[j].kind = "handle"
        /\ arcs[i].cell = arcs[j].cell
        /\ arcs[k].cell # arcs[i].cell
        /\ made[arcs[k].cell] = made[arcs[i].cell]

\* C15 (the claim as stated): a compares as Equal to b if and only if a == b,
\* and a == b implies hash(a) == hash(b).
C15_OrderAndHashFollowIdentity ==
    \A i, j \in DOMAIN arcs :
        /\ HandleCmp(arcs[i], arcs[j]) = "Equal" <=> HandleEq(arcs[i], arcs[j])
        /\ HandleEq(arcs[i], arcs[j]) => HandleHash(arcs[i]) = HandleHash(arcs[j])

\* C16: every outstanding handle resolves, and to the value its cell was
\* created with, whatever has been stored, cloned and dropped since.
C16_GetReturnsStoredValue ==
    \A i \in DOMAIN arcs :
        /\ heap[arcs[i].ptr].live
        /\ HandleGet(arcs[i]) = made[arcs[i].cell]

\* A handle is outstanding whose cell sits at an address that an earlier
\* cell, since reclaimed, may have had, after other handles were dropped.
C16_Witness ==
    /\ Len(made) = MaxCells
    /\ \E c \in DOMAIN made : \A i \in DOMAIN arcs : arcs[i].cell # c
    /\ \E i \in DOMAIN arcs :
          /\ arcs[i].kind = "handle"
          /\ arcs[i].cell = MaxCells
          /\ \E c \in DOMAIN made : made[c] # made[MaxCells]

\* The Storage and Handle values that hold the cell at address a.
Holders(a) == {i \in DOMAIN arcs : arcs[i].ptr = a}

\* C17: a cell is live if and only if the number of outstanding references
\* to it is greater than zero: it is reclaimed with the last drop and no
\* handle dangles.
C17_LiveIffReferenced ==
    /\ \A a \in Addrs :
          /\ heap[a].live <=> Cardinality(Holders(a)) > 0
          /\ heap[a].live =>
                /\ heap[a].strong = Cardinality(Holders(a))
                /\ \A i \in Holders(a) : arcs[i].cell = heap[a].cell
    /\ \A c \in DOMAIN made :
          (\E a \in Addrs : heap[a].live /\ heap[a].cell = c)
              <=> (\E i \in DOMAIN arcs : arcs[i].cell = c)

\* One cell has been reclaimed after its last reference was dropped while
\* another is kept alive by several references.
C17_Witness ==
    /\ \E c \in DOMAIN made : \A a \in Addrs : ~(heap[a].live /\ heap[a].cell = c)
    /\ \E a \in Addrs : heap[a].live /\ heap[a].strong >= 2
    /\ \E a \in Addrs : ~heap[a].live

\* ---------------------------------------------- claims: the Layer engine

\* C18: the Validation state equals the replay of its event log: evolve
\* applied from the initial state to all events emitted so far, in call order
\* and within a call in emission order. Every call has decided on the replay
\* of the events before it, and the state after the call differs from that
\* only by the events the call emitted (decide itself changes nothing).
C18_StateIsReplayOfLog ==
    /\ errors = ApplyEvents(log, EmptyMap)
    /\ last.cmd # "none" =>
          /\ Len(last.events) <= Len(log)
          /\ SubSeq(log, Len(log) - Len(last.events) + 1, Len(log)) = last.events
          /\ last.pre = ApplyEvents(SubSeq(log, 1, Len(log) - Len(last.events)),
                                    EmptyMap)
          /\ errors = ApplyEvents(last.events, last.pre)

\* Failures were recorded, drained, and recorded again: the log holds a
\* TakeErrors event between ValidationFailed events and the state is not
\* empty.
C18_Witness ==
    /\ errors # EmptyMap
    /\ \E i, j, k \in DOMAIN log :
          /\ i < j /\ j < k
          /\ log[i].type = "ValidationFailed"
          /\ log[j].type = "TakeErrors"
          /\ log[k].type = "ValidationFailed"

C21_LookupOutcomes ==
    /\ glast.op = "of_surface" =>
          /\ ~glast.defined <=> glast.result.kind = "panic"
          /\ glast.defined =>
                glast.result = [kind |-> "value", value |-> gsurface[glast.surface]]
          /\ ~glast.changed
    /\ glast.op \in {"of_curve", "of_vertex"} =>
          /\ glast.result.kind \in {"some", "none"}
          /\ ~glast.defined <=> glast.result.kind = "none"
          /\ ~glast.changed

\* of_surface has been called for a surface that was never defined, on a
\* Geometry that holds definitions of a curve and of a vertex.
C21_Witness ==
    /\ glast.op = "of_surface"
    /\ glast.surface \in UserSurfaces
    /\ ~glast.defined
    /\ DOMAIN gcurve # {}
    /\ DOMAIN gvertex # {}

\* C22: the three basis planes have, in every state, the geometry
\* Geometry::new gave them and resolve; every later attempt to define one of
\* them halts and changes nothing; a definition of another surface (not the
\* 2D space) goes through, also when the surface was defined before.
C22_BasisPlanesAreFixed ==
    /\ BasisPlanes \subseteq DOMAIN gsurface
    /\ gsurface[XyPlane] = XyGeom
    /\ gsurface[XzPlane] = XzGeom
    /\ gsurface[YzPlane] = YzGeom
    /\ glast.op = "new" => ~glast.panic
    /\ glast.op = "basis_plane" =>
          glast.result = [kind |-> "value", value |-> gsurface[glast.surface]]
    /\ (glast.op = "define_surface" /\ glast.surface \in BasisPlanes) =>
          glast.panic /\ ~glast.changed
    /\ (glast.op = "define_surface" /\ glast.surface \in UserSurfaces) =>
          ~glast.panic /\ gsurface[glast.surface] = glast.geometry

\* A definition of a basis plane with a geometry other than its own has been
\* attempted, on a Geometry in which another surface is defined.
C22_Witness ==
    /\ glast.op = "define_surface"
    /\ glast.surface \in BasisPlanes
    /\ glast.geometry # gsurface[glast.surface]
    /\ UserSurfaces \cap DOMAIN gsurface # {}

\* C28: the 2D space never has geometry: every define_surface_inner for it
\* halts and inserts nothing, the surface map has no entry for it in any
\* state, and of_surface of it never resolves.
C28_Space2dHasNoGeometry ==
    /\ Space2d \notin DOMAIN gsurface
    /\ OfSurface(Space2d).kind = "panic"
    /\ (glast.op = "define_surface" /\ glast.surface = Space2d) =>
          glast.panic /\ ~glast.changed
    /\ (glast.op = "of_surface" /\ glast.surface = Space2d) =>
          glast.result.kind = "panic"

\* A definition of the 2D space has been attempted.
C28_Witness ==
    /\ glast.op = "define_surface"
    /\ glast.surface = Space2d
    /\ UserSurfaces \cap DOMAIN gsurface # {}

\* ----------------------------------------------- claims: validation of a face

\* The errors the last validate added to the sink.
Added == SubSeq(sink, Len(flast.pre) + 1, Len(sink))

\* C23: validating a face reports an interior-winding violation exactly for
\* each interior cycle whose orientation equals that of the exterior cycle,
\* once each: a face with such an interior fails the check and the face with
\* that interior flipped passes it.
C23_WindingViolations ==
    flast.op = "validate" =>
        LET winding == {i \in DOMAIN Added :
                           Added[i].kind = "InteriorCycleHasInvalidWinding"}
            same == {k \in DOMAIN flast.face.interiors :
                        flast.face.interiors[k] = flast.face.exterior}
        IN  /\ {Added[i].interior : i \in winding} = same
            /\ Cardinality(winding) = Cardinality(same)

\* A face has been validated that has one interior winding as the exterior
\* does and one winding the other way.
C23_Witness ==
    /\ flast.op = "validate"
    /\ flast.face.closed
    /\ \E i, j \in DOMAIN flast.face.interiors :
          /\ flast.face.interiors[i] = flast.face.exterior
          /\ flast.face.interiors[j] # flast.face.exterior

\* C26: validating a face runs the boundary check and the winding check and
\* only appends to the sink: the entries already there are kept in place, the
\* boundary errors come before the winding errors, a face failing both checks
\* adds errors of both kinds, and both checks are handed the caller's
\* configuration and geometry.
C26_ValidateOnlyAppends ==
    flast.op = "validate" =>
        /\ Len(sink) >= Len(flast.pre)
        /\ SubSeq(sink, 1, Len(flast.pre)) = flast.pre
        /\ \A i, j \in DOMAIN Added :
              (/\ Added[i].kind = "InteriorCycleHasInvalidWinding"
               /\ Added[j].kind = "FaceHasNoBoundary") => j < i
        /\ ~flast.face.closed =>
              \E i \in DOMAIN Added : Added[i].kind = "FaceHasNoBoundary"
        /\ (\E k \in DOMAIN flast.face.interiors :
                flast.face.interiors[k] = flast.face.exterior) =>
              \E i \in DOMAIN Added :
                  Added[i].kind = "InteriorCycleHasInvalidWinding"
        /\ {h.check : h \in Range(flast.handed)}
              = {"FaceHasNoBoundary", "InteriorCycleHasInvalidWinding"}
        /\ \A h \in Range(flast.handed) :
              h.config = flast.config /\ h.geometry = flast.geometry
        /\ TheGeometry = flast.geometry

\* A face failing both checks has been validated into a sink that already
\* held errors.
C26_Witness ==
    /\ flast.op = "validate"
    /\ Len(flast.pre) >= 1
    /\ ~flast.face.closed
    /\ \E k \in DOMAIN flast.face.interiors :
          flast.face.interiors[k] = flast.face.exterior

\* ------------------------------------ claims: the recorded failures

\* The position of the last TakeErrors event in a log, 0 if there is none.
LastDrain(q) ==
    LET takes == {i \in DOMAIN q : q[i].type = "TakeErrors"}
    IN  IF takes = {} THEN 0 ELSE CHOOSE i \in takes : \A j \in takes : j <= i

\* The positions of the ValidationFailed events for the object after the
\* last TakeErrors event of a log.
FailuresSince(q, object) ==
    {i \in DOMAIN q : i > LastDrain(q) /\ q[i].object = object}

\* C24: the state holds one failure per object, the most recently recorded
\* one: an object has an entry exactly if a ValidationFailed event for it was
\* applied since the last drain, and the entry is the error of the last such
\* event; a drain returns as many errors as there are objects with a recorded
\* failure.
C24_MostRecentFailurePerObject ==
    /\ \A o \in Objects :
          LET idx == FailuresSince(log, o)
          IN  /\ o \in DOMAIN errors <=> idx # {}
              /\ idx # {} =>
                    errors[o] = log[CHOOSE i \in idx : \A j \in idx : j <= i].err
    /\ last.cmd = "TakeErrors" =>
          LET before == SubSeq(log, 1, Len(log) - 1)
              failed == {o \in Objects : FailuresSince(before, o) # {}}
          IN  /\ last.result.ok <=> failed = {}
              /\ ~last.result.ok => Len(last.result.errs) = Cardinality(failed)

\* Two different failures of one object have been recorded, one after the
\* other, and not drained.
C24_Witness ==
    \E o \in Objects :
        \E i, j \in FailuresSince(log, o) :
            /\ i < j
            /\ log[i].err # log[j].err
            /\ \A k \in FailuresSince(log, o) : k <= j
            /\ LastDrain(log) > 0

\* C25: the objects that have a recorded failure are exactly the objects for
\* which some ValidateObject since the last TakeErrors (or since startup)
\* produced an error; so a TakeErrors fails exactly when some ValidateObject
\* since the drain before it produced an error.
C25_FailedObjectsSinceDrain ==
    /\ DOMAIN errors = emitted
    /\ last.cmd = "TakeErrors" => (~last.result.ok <=> drained # {})

\* A drain that follows a ValidateObject has returned failures, and not every
\* object had failed.
C25_Witness ==
    /\ last.cmd = "TakeErrors"
    /\ prev.cmd = "ValidateObject"
    /\ drained # {}
    /\ drained # Objects

\* ------------------------------------------------------ claims: add_regions

\* C27: after add_regions the sketch lists the regions of the sketch it was
\* called on, same handles in the same order, followed by the added regions
\* in the order given; the sketch it was called on and the regions stored
\* before are as they were; and no validation failure has been recorded or
\* cleared, no command processed.
C27_AddRegionsAppends ==
    edit.op = "add_regions" =>
        /\ Len(sketch) = Len(edit.sketch) + Len(edit.given)
        /\ SubSeq(sketch, 1, Len(edit.sketch)) = edit.sketch
        /\ \A i \in DOMAIN edit.given :
              /\ sketch[Len(edit.sketch) + i] \notin DOMAIN edit.regions
              /\ regions[sketch[Len(edit.sketch) + i]]
                    = Region(edit.given[i], <<>>)
        /\ \A i, j \in DOMAIN sketch : i # j => sketch[i] # sketch[j]
        /\ \A h \in DOMAIN edit.regions : regions[h] = edit.regions[h]
        /\ errors = edit.errors
        /\ last = edit.last

\* add_regions has added a region to a sketch that had one, bounded by
\* another cycle, while a validation failure was on record.
C27_Witness ==
    /\ edit.op = "add_regions"
    /\ Len(edit.sketch) >= 1
    /\ regions[sketch[1]].exterior # edit.given[Len(edit.given)]
    /\ errors # EmptyMap

====
